---------------------------- MODULE Spec2Model ----------------------------
(***************************************************************************)
(* Model of formal/model_checker.py, the bounded model checker of the      *)
(* Requiem formal specs.  Each check_* function of the source is a state   *)
(* machine of its own (its local variables are the fields of one record    *)
(* variable); main() is the driver.  A specification runs one function and *)
(* leaves the records of the others at Idle.                               *)
(***************************************************************************)
EXTENDS Integers, Sequences, FiniteSets, TLC

VARIABLES cas, proto, replay, det, policy, drv

vars == <<cas, proto, replay, det, policy, drv>>

\* A function that is not running.
Idle == [pc |-> "idle"]

(***************************************************************************)
(* Bounds of the model (not program constants).                            *)
(***************************************************************************)
\* Largest --bound handed to check_cas.
MaxCasBound == 5
\* Largest --bound handed to check_protocol.
MaxProtoBound == 5
\* Longest stream handed to check_state on its own.
MaxStreamLen == 3
\* Largest --bound handed to check_replay (above the cap of 20 trials).
MaxReplayBound == 22
\* Largest --bound handed to check_determinism.
MaxDetBound == 3
\* Most policies an external policy file lists.
MaxExtPolicies == 2
\* Most conflicts an external policy file lists.
MaxExtConflicts == 1

(***************************************************************************)
(* Helpers                                                                 *)
(***************************************************************************)
RECURSIVE SetToSeq(_)
\* The elements of a finite set in the order an iteration over it meets them
\* (Python leaves the order of a set open; one order is fixed here).
SetToSeq(S) ==
    IF S = {} THEN <<>>
    ELSE LET x == CHOOSE y \in S : TRUE IN <<x>> \o SetToSeq(S \ {x})

Range(s) == {s[i] : i \in 1..Len(s)}

(***************************************************************************)
(* CAS model: check_cas                                                    *)
(***************************************************************************)
DIGESTS == <<"d1", "d2">>
CONTENT == <<"c_a", "c_b">>

\* The empty store, {}.
EmptyStore == [d \in {} |-> "c_a"]

\* The initial queue entry ({}, frozenset(), frozenset(), 0).
CasInitialEntry ==
    [store |-> EmptyStore, writes_ok |-> {}, errors |-> {}, depth |-> 0]

\* tuple(sorted(store.items())): the (digest, content) pairs by digest.
SortedItems(store) ==
    LET RECURSIVE Items(_)
        Items(i) ==
            IF i > Len(DIGESTS) THEN <<>>
            ELSE (IF DIGESTS[i] \in DOMAIN store
                    THEN << <<DIGESTS[i], store[DIGESTS[i]]>> >>
                    ELSE <<>>) \o Items(i + 1)
    IN Items(1)

\* The key leaves the collision errors out.
state_keyNoErrors(store, writes_ok, errors) ==
    <<SortedItems(store), writes_ok, {}>>

state_key(store, writes_ok, errors) ==
    <<SortedItems(store), writes_ok, errors>>

\* CAS-INV-1: every write in writes_ok must match the store.
CasInv1(st) ==
    LET bad == {w \in st.writes_ok :
                  w[1] \in DOMAIN st.store /\ st.store[w[1]] # w[2]}
    IN [i \in 1..Cardinality(bad) |->
          <<"CAS-INV-1", SetToSeq(bad)[i][1], st.store[SetToSeq(bad)[i][1]],
            SetToSeq(bad)[i][2]>>]

\* CAS-INV-2: committed writes (not in errors) must be readable from the store.
CasInv2(st) ==
    LET bad == {w \in st.writes_ok :
                  /\ w \notin st.errors
                  /\ (w[1] \notin DOMAIN st.store \/ st.store[w[1]] # w[2])}
    IN [i \in 1..Cardinality(bad) |->
          <<"CAS-INV-2", SetToSeq(bad)[i][1], SetToSeq(bad)[i][2]>>]

\* CAS-INV-4: collision errors are accurate.
CasInv4(st) ==
    LET bad == {e \in st.errors :
                  e[1] \notin DOMAIN st.store \/ st.store[e[1]] = e[2]}
    IN [i \in 1..Cardinality(bad) |->
          <<"CAS-INV-4", SetToSeq(bad)[i][1], SetToSeq(bad)[i][2]>>]

\* The violations one dequeued state adds, in the order of the three loops.
CasCheckInvariants(st) == CasInv1(st) \o CasInv2(st) \o CasInv4(st)

\* The (d, c) pairs in the order of "for d in DIGESTS: for c in CONTENT".
WritePairs ==
    [i \in 1..(Len(DIGESTS) * Len(CONTENT)) |->
       <<DIGESTS[((i - 1) \div Len(CONTENT)) + 1],
         CONTENT[((i - 1) % Len(CONTENT)) + 1]>>]

\* A collision overwrites the stored content.
ApplyWriteOverwrite(st, d, c) ==
    [store     |-> [x \in DOMAIN st.store \cup {d} |->
                      IF x = d THEN c ELSE st.store[x]],
     writes_ok |-> st.writes_ok \cup {<<d, c>>},
     errors    |-> st.errors,
     depth     |-> st.depth + 1]

\* A collision is dropped without being recorded.
ApplyWriteSilent(st, d, c) ==
    IF d \in DOMAIN st.store
    THEN [st EXCEPT !.depth = st.depth + 1]
    ELSE [store     |-> [x \in DOMAIN st.store \cup {d} |->
                           IF x = d THEN c ELSE st.store[x]],
          writes_ok |-> st.writes_ok \cup {<<d, c>>},
          errors    |-> st.errors,
          depth     |-> st.depth + 1]

\* A write to a fresh digest is stored and also recorded as a collision.
ApplyWriteErrOnFresh(st, d, c) ==
    IF d \in DOMAIN st.store
    THEN [st EXCEPT !.errors = st.errors \cup {<<d, c>>},
                    !.depth = st.depth + 1]
    ELSE [store     |-> [x \in DOMAIN st.store \cup {d} |->
                           IF x = d THEN c ELSE st.store[x]],
          writes_ok |-> st.writes_ok \cup {<<d, c>>},
          errors    |-> st.errors \cup {<<d, c>>},
          depth     |-> st.depth + 1]

\* Any write to a stored digest is recorded as a collision, equal content too.
ApplyWriteIdemErr(st, d, c) ==
    IF d \in DOMAIN st.store
    THEN [st EXCEPT !.errors = st.errors \cup {<<d, c>>},
                    !.depth = st.depth + 1]
    ELSE [store     |-> [x \in DOMAIN st.store \cup {d} |->
                           IF x = d THEN c ELSE st.store[x]],
          writes_ok |-> st.writes_ok \cup {<<d, c>>},
          errors    |-> st.errors,
          depth     |-> st.depth + 1]

\* A first write stores the content without recording the commit.
ApplyWriteNoCommitRecord(st, d, c) ==
    IF d \in DOMAIN st.store
    THEN IF st.store[d] = c
         THEN [st EXCEPT !.writes_ok = st.writes_ok \cup {<<d, c>>},
                         !.depth = st.depth + 1]
         ELSE [st EXCEPT !.errors = st.errors \cup {<<d, c>>},
                         !.depth = st.depth + 1]
    ELSE [store     |-> [x \in DOMAIN st.store \cup {d} |->
                           IF x = d THEN c ELSE st.store[x]],
          writes_ok |-> st.writes_ok,
          errors    |-> st.errors,
          depth     |-> st.depth + 1]

\* The successor queue entry of write(d, c) on queue entry st: the body of the
\* successor loop, without its guard.
ApplyWrite(st, d, c) ==
    IF d \in DOMAIN st.store
    THEN IF st.store[d] = c
         THEN [st EXCEPT !.writes_ok = st.writes_ok \cup {<<d, c>>},   \* idempotent
                         !.depth = st.depth + 1]
         ELSE [st EXCEPT !.errors = st.errors \cup {<<d, c>>},         \* collision
                         !.depth = st.depth + 1]
    ELSE [store     |-> [x \in DOMAIN st.store \cup {d} |->
                           IF x = d THEN c ELSE st.store[x]],
          writes_ok |-> st.writes_ok \cup {<<d, c>>},
          errors    |-> st.errors,
          depth     |-> st.depth + 1]

\* The writes the successor loop applies to st: "if (d, c) not in writes_ok".
EnabledWrites(st) == SelectSeq(WritePairs, LAMBDA p : p \notin st.writes_ok)

\* The entries one expansion appends to the queue, in order.
CasSuccessors(st) ==
    [i \in 1..Len(EnabledWrites(st)) |->
       ApplyWrite(st, EnabledWrites(st)[i][1], EnabledWrites(st)[i][2])]

\* No state is ever taken as visited.
SeenNever(sk, visited) == FALSE

\* "if sk in visited".
Seen(sk, visited) == sk \in visited

\* The successors are put at the front of the queue (depth-first order).
EnqueueFront(queue, succs) == succs \o queue

\* The queue after the successors of the dequeued state are appended.
Enqueue(queue, succs) == queue \o succs

\* The invariant evaluation of one dequeued state.  The code's own checks are
\* CasCheckInvariants; cas.flagged is the set of state keys a substituted
\* evaluator rejects in addition (empty for the code as written).
CasEvaluate(st) ==
    LET sk == state_key(st.store, st.writes_ok, st.errors)
    IN IF sk \in cas.flagged THEN << <<"FLAGGED", sk>> >>
       ELSE CasCheckInvariants(st)

CasStart(b, flagged) ==
    [pc |-> "loop", bound |-> b, flagged |-> flagged,
     queue |-> <<CasInitialEntry>>,
     visited |-> {}, explored |-> 0, violations |-> <<>>,
     passed |-> FALSE, reported |-> -1]

CasInit ==
    /\ proto = Idle /\ replay = Idle /\ det = Idle /\ policy = Idle /\ drv = Idle
    /\ cas \in {CasStart(b, {}) : b \in 0..MaxCasBound}

\* The states the write actions reach from the empty store, by the number of
\* writes of a shortest path: element k + 1 is the set of states first reached
\* at depth k.
CasKeys(S) == {state_key(st.store, st.writes_ok, st.errors) : st \in S}

CasLevels ==
    LET RECURSIVE Levels(_, _)
        Levels(front, seen) ==
            IF front = {} THEN <<>>
            ELSE LET seen2 == seen \cup CasKeys(front)
                     succ  == UNION {Range(CasSuccessors(st)) : st \in front}
                     next  == {st \in succ :
                                 state_key(st.store, st.writes_ok, st.errors)
                                   \notin seen2}
                 IN <<front>> \o Levels(next, seen2)
    IN Levels({CasInitialEntry}, {})

\* The keys of the states reachable by at most b writes.
CasReachableKeys(b) ==
    UNION {CasKeys(CasLevels[k]) : k \in {j \in 1..Len(CasLevels) : j <= b + 1}}

\* The least number of writes that reaches the state of key sk.
CasMinDepth(sk) ==
    (CHOOSE k \in 1..Len(CasLevels) : sk \in CasKeys(CasLevels[k])) - 1

\* The rejected sets of the substituted evaluators: at most two reachable states.
CasFlaggedSets ==
    {{a, b} : a \in CasReachableKeys(Len(CasLevels)),
              b \in CasReachableKeys(Len(CasLevels))} \cup {{}}

\* check_cas run with the invariant evaluation replaced.
CasEvalInit ==
    /\ proto = Idle /\ replay = Idle /\ det = Idle /\ policy = Idle /\ drv = Idle
    /\ cas \in {CasStart(b, fl) : b \in 0..MaxCasBound, fl \in CasFlaggedSets}

\* One iteration of "while queue and not violations".
CasStep ==
    /\ cas.pc = "loop"
    /\ cas.queue # <<>>
    /\ cas.violations = <<>>
    /\ LET st == Head(cas.queue)
           sk == state_key(st.store, st.writes_ok, st.errors)
           v  == CasEvaluate(st)
       IN cas' =
            IF Seen(sk, cas.visited)
            THEN [cas EXCEPT !.queue = Tail(cas.queue)]
            ELSE [cas EXCEPT
                    !.visited = cas.visited \cup {sk},
                    !.explored = cas.explored + 1,
                    !.violations = v,
                    !.queue = IF v # <<>> \/ st.depth >= cas.bound
                              THEN Tail(cas.queue)
                              ELSE Enqueue(Tail(cas.queue), CasSuccessors(st))]
    /\ UNCHANGED <<proto, replay, det, policy, drv>>

\* After the loop: print the violations or the state count, and return.
CasFinish ==
    /\ cas.pc = "loop"
    /\ (cas.queue = <<>> \/ cas.violations # <<>>)
    /\ cas' = [cas EXCEPT !.pc = "done",
                          !.passed = (cas.violations = <<>>),
                          !.reported = cas.explored]
    /\ UNCHANGED <<proto, replay, det, policy, drv>>

CasNext == CasStep \/ CasFinish

SpecCAS == CasInit /\ [][CasNext]_vars

SpecCASEval == CasEvalInit /\ [][CasNext]_vars

\* check_cas is a sequential loop: a run that can take a step takes it.
SpecCASLive == CasInit /\ [][CasNext]_vars /\ WF_vars(CasNext)


(***************************************************************************)
(* Protocol model: check_protocol                                          *)
(***************************************************************************)
TERMINAL == {"result", "error"}

\* check_state returned None.
None == <<>>

Last(s) == s[Len(s)]

\* The position-zero check is made before the first-frame check.
check_stateInv4First(stream, terminated) ==
    IF \E i \in 1..Len(stream) : stream[i] = "event" /\ i - 1 = 0
    THEN <<"PROTO-INV-4">>
    ELSE IF stream # <<>> /\ stream[1] # "start"
    THEN <<"PROTO-INV-1", stream[1]>>
    ELSE IF terminated /\ (stream = <<>> \/ Last(stream) \notin TERMINAL)
    THEN <<"PROTO-INV-2", IF stream # <<>> THEN Last(stream) ELSE "none">>
    ELSE None

\* The invariant evaluator of one (stream, terminated) state: the first
\* violation it meets, or None.
check_state(stream, terminated) ==
    IF stream # <<>> /\ stream[1] # "start"
    THEN <<"PROTO-INV-1", stream[1]>>
    ELSE IF terminated /\ (stream = <<>> \/ Last(stream) \notin TERMINAL)
    THEN <<"PROTO-INV-2", IF stream # <<>> THEN Last(stream) ELSE "none">>
    ELSE IF \E i \in 1..Len(stream) : stream[i] = "event" /\ i - 1 = 0
    THEN <<"PROTO-INV-4">>
    ELSE None

\* An appended 'end' is passed on as terminated.
ProtoActionsEndTerminates(stream, terminated) ==
    IF stream = <<>>
    THEN << [stream |-> <<"start">>, terminated |-> FALSE] >>
    ELSE << [stream |-> Append(stream, "event"), terminated |-> FALSE],
            [stream |-> Append(stream, "end"), terminated |-> TRUE] >>

\* The recursive calls explore makes from a state, in order: the arguments
\* (stream, terminated) of each.
\* 'end' may be appended again after an 'end'.
ProtoActionsEndRepeats(stream, terminated) ==
    IF stream = <<>>
    THEN << [stream |-> <<"start">>, terminated |-> FALSE] >>
    ELSE IF ~terminated
    THEN << [stream |-> Append(stream, "event"), terminated |-> FALSE],
            [stream |-> Append(stream, "end"), terminated |-> FALSE],
            [stream |-> Append(stream, "result"), terminated |-> TRUE],
            [stream |-> Append(stream, "error"), terminated |-> TRUE] >>
    ELSE <<>>

ProtoActions(stream, terminated) ==
    IF stream = <<>>
    THEN << [stream |-> <<"start">>, terminated |-> FALSE] >>
    ELSE IF stream[1] = "start"
    THEN IF ~terminated
         THEN << [stream |-> Append(stream, "event"), terminated |-> FALSE] >>
              \o (IF "end" \notin Range(stream)
                    THEN << [stream |-> Append(stream, "end"),
                             terminated |-> FALSE] >>
                    ELSE <<>>)
              \o << [stream |-> Append(stream, "result"), terminated |-> TRUE],
                    [stream |-> Append(stream, "error"), terminated |-> TRUE] >>
         ELSE <<>>
    ELSE <<>>

\* A call of explore that has not run yet (next = 0); once its body has passed
\* the checks, next is the index of its next recursive call.
ProtoFrame(stream, terminated, depth) ==
    [stream |-> stream, terminated |-> terminated, depth |-> depth, next |-> 0]

ProtoTop == proto.stack[Len(proto.stack)]

ProtoPop == SubSeq(proto.stack, 1, Len(proto.stack) - 1)

\* The invariant evaluator explore calls.  The code's own is check_state;
\* proto.flagged is the set of streams a substituted evaluator rejects in
\* addition (empty for the code as written).
ProtoEvaluate(stream, terminated) ==
    IF stream \in proto.flagged THEN <<"FLAGGED", stream>>
    ELSE check_state(stream, terminated)

ProtoStart(b, flagged) ==
    [pc |-> "run", bound |-> b, flagged |-> flagged,
     stack |-> <<ProtoFrame(<<>>, FALSE, 0)>>,
     explored |-> 0, violations |-> <<>>,
     passed |-> FALSE, reported |-> -1]

ProtoInit ==
    /\ cas = Idle /\ replay = Idle /\ det = Idle /\ policy = Idle /\ drv = Idle
    /\ proto \in {ProtoStart(b, {}) : b \in 0..MaxProtoBound}

\* Streams a substituted evaluator may reject: the first states explore visits.
ProtoFlaggable ==
    {<<"start">>, <<"start", "event">>, <<"start", "end">>, <<"start", "result">>}

\* check_protocol run with explore's evaluator replaced.
ProtoEvalInit ==
    /\ cas = Idle /\ replay = Idle /\ det = Idle /\ policy = Idle /\ drv = Idle
    /\ proto \in {ProtoStart(b, fl) : b \in 0..MaxProtoBound, fl \in SUBSET ProtoFlaggable}

\* explore is entered: count the state, check it, and return at once on a
\* violation, a terminated stream or the depth bound.
ProtoEnter ==
    /\ proto.pc = "run"
    /\ proto.stack # <<>>
    /\ ProtoTop.next = 0
    /\ LET f   == ProtoTop
           err == ProtoEvaluate(f.stream, f.terminated)
       IN proto' =
            IF err # None
            THEN [proto EXCEPT !.explored = proto.explored + 1,
                               !.violations = Append(proto.violations, err),
                               !.stack = ProtoPop]
            ELSE IF f.terminated \/ f.depth >= proto.bound
            THEN [proto EXCEPT !.explored = proto.explored + 1,
                               !.stack = ProtoPop]
            ELSE [proto EXCEPT !.explored = proto.explored + 1,
                               !.stack[Len(proto.stack)].next = 1]
    /\ UNCHANGED <<cas, replay, det, policy, drv>>

\* The running explore makes its next recursive call.
ProtoCall ==
    /\ proto.pc = "run"
    /\ proto.stack # <<>>
    /\ LET f    == ProtoTop
           acts == ProtoActions(f.stream, f.terminated)
       IN /\ f.next >= 1
          /\ f.next <= Len(acts)
          /\ proto' =
               [proto EXCEPT !.stack =
                  Append([proto.stack EXCEPT ![Len(proto.stack)].next = f.next + 1],
                         ProtoFrame(acts[f.next].stream, acts[f.next].terminated,
                                    f.depth + 1))]
    /\ UNCHANGED <<cas, replay, det, policy, drv>>

\* The running explore has made all its calls and returns.
ProtoReturn ==
    /\ proto.pc = "run"
    /\ proto.stack # <<>>
    /\ ProtoTop.next > Len(ProtoActions(ProtoTop.stream, ProtoTop.terminated))
    /\ proto' = [proto EXCEPT !.stack = ProtoPop]
    /\ UNCHANGED <<cas, replay, det, policy, drv>>

\* explore([], False, 0) has returned: print and return.
ProtoFinish ==
    /\ proto.pc = "run"
    /\ proto.stack = <<>>
    /\ proto' = [proto EXCEPT !.pc = "done",
                              !.passed = (proto.violations = <<>>),
                              !.reported = proto.explored]
    /\ UNCHANGED <<cas, replay, det, policy, drv>>

ProtoNext == ProtoEnter \/ ProtoCall \/ ProtoReturn \/ ProtoFinish

SpecProtocol == ProtoInit /\ [][ProtoNext]_vars

SpecProtocolEval == ProtoEvalInit /\ [][ProtoNext]_vars

\* The frame tags.
FRAME_TYPES == {"start", "event", "end", "result", "error"}

\* The streams of at most MaxStreamLen frame tags.
ProtoStreams == UNION {[1..n -> FRAME_TYPES] : n \in 0..MaxStreamLen}

\* check_state applied to one (stream, terminated) argument pair.
CheckStateInit ==
    /\ cas = Idle /\ replay = Idle /\ det = Idle /\ policy = Idle /\ drv = Idle
    /\ proto \in {[pc |-> "call", stream |-> st, terminated |-> t,
                   result |-> None] : st \in ProtoStreams, t \in BOOLEAN}

CheckStateCall ==
    /\ proto.pc = "call"
    /\ proto' = [proto EXCEPT !.pc = "returned",
                              !.result = check_state(proto.stream, proto.terminated)]
    /\ UNCHANGED <<cas, replay, det, policy, drv>>

SpecCheckState == CheckStateInit /\ [][CheckStateCall]_vars

(***************************************************************************)
(* Replay model: check_replay                                              *)
(***************************************************************************)
REQUESTS == <<"req_a", "req_b">>
REPLAY_DIGESTS == <<"d_x", "d_y", "d_z">>
NODES == <<"node_1", "node_2", "node_3">>

\* The cap of the trial loop: range(min(bound, 20)).
MaxTrials == 20

Min(a, b) == IF a <= b THEN a ELSE b

\* The (n, r) pairs in the order of "for n in NODES: for r in REQUESTS".
NodeRequests ==
    [i \in 1..(Len(NODES) * Len(REQUESTS)) |->
       <<NODES[((i - 1) \div Len(REQUESTS)) + 1],
         REQUESTS[((i - 1) % Len(REQUESTS)) + 1]>>]

\* The digest depends on the node that executes the request.
ExecuteNodeDependent(exec_fn, n, r) ==
    IF n = NODES[1] THEN exec_fn[r] ELSE REPLAY_DIGESTS[1]

\* The digest node n records for request r: results[(n, r)] = exec_fn[r].
Execute(exec_fn, n, r) == exec_fn[r]

\* The digest node n gets when it replays request r.
ReplayDigest(exec_fn, n, r) == exec_fn[r]

\* results after "Execute all nodes x all requests".
ReplayResults(exec_fn) ==
    [k \in Range(NodeRequests) |-> Execute(exec_fn, k[1], k[2])]

\* replay_log after "Replay verify".
ReplayLog(exec_fn) ==
    [i \in 1..Len(NodeRequests) |->
       <<NodeRequests[i][1], NodeRequests[i][2],
         ReplayDigest(exec_fn, NodeRequests[i][1], NodeRequests[i][2])>>]

\* REPLAY-INV-1: all nodes have the same result for a request.
ReplayInv1(results) ==
    LET Digests(r) == {results[<<NODES[j], r>>] : j \in 1..Len(NODES)}
        bad == SelectSeq(REQUESTS, LAMBDA r : Cardinality(Digests(r)) > 1)
    IN [i \in 1..Len(bad) |-> <<"REPLAY-INV-1", bad[i], Digests(bad[i])>>]

\* REPLAY-INV-3: the replay agrees with the original.
ReplayInv3(results, replay_log) ==
    LET bad == SelectSeq(replay_log, LAMBDA e : results[<<e[1], e[2]>>] # e[3])
    IN [i \in 1..Len(bad) |->
          <<"REPLAY-INV-3", bad[i][1], bad[i][2], bad[i][3],
            results[<<bad[i][1], bad[i][2]>>]>>]

ReplayInit ==
    /\ cas = Idle /\ proto = Idle /\ det = Idle /\ policy = Idle /\ drv = Idle
    /\ replay \in {[pc |-> "loop", bound |-> b, trial |-> 0,
                    exec_fn |-> <<>>, results |-> <<>>, replay_log |-> <<>>,
                    violations |-> <<>>, passed |-> FALSE, reported |-> -1]
                   : b \in 0..MaxReplayBound}

\* One iteration of "for trial in range(min(bound, 20))", with the function
\* the trial samples.
ReplayTrial ==
    /\ replay.pc = "loop"
    /\ replay.trial < Min(replay.bound, MaxTrials)
    /\ \E f \in [Range(REQUESTS) -> Range(REPLAY_DIGESTS)] :
         LET results == ReplayResults(f)
             log     == ReplayLog(f)
         IN replay' = [replay EXCEPT
                         !.trial = replay.trial + 1,
                         !.exec_fn = f,
                         !.results = results,
                         !.replay_log = log,
                         !.violations = replay.violations
                                          \o ReplayInv1(results)
                                          \o ReplayInv3(results, log)]
    /\ UNCHANGED <<cas, proto, det, policy, drv>>

\* After the loop: print the violations or "{bound} trials", and return.
ReplayFinish ==
    /\ replay.pc = "loop"
    /\ replay.trial >= Min(replay.bound, MaxTrials)
    /\ replay' = [replay EXCEPT !.pc = "done",
                                !.passed = (replay.violations = <<>>),
                                !.reported = replay.bound]
    /\ UNCHANGED <<cas, proto, det, policy, drv>>

ReplayNext == ReplayTrial \/ ReplayFinish

SpecReplay == ReplayInit /\ [][ReplayNext]_vars

(***************************************************************************)
(* Determinism model: check_determinism                                    *)
(***************************************************************************)
DOMAIN_PREFIXES == <<"req:", "res:", "cas:">>
INPUTS == <<"input_a", "input_b", "input_c", "">>

\* The values sha256(prefix + input).hexdigest()[:16] may take: the hash is
\* an arbitrary function of its argument, so two digests are enough to make
\* any two calls agree or differ.
HashValues == {"h1", "h2"}

\* ops = list(itertools.product(DOMAIN_PREFIXES, INPUTS))
HashOps == {<<DOMAIN_PREFIXES[i], INPUTS[j]>> :
              i \in 1..Len(DOMAIN_PREFIXES), j \in 1..Len(INPUTS)}

\* DET-INV-1: the calls whose digest differs from the first digest seen for
\* the same (prefix, input).
DetInv1(hash_calls) ==
    LET First(i) == CHOOSE j \in 1..i :
                      /\ hash_calls[j][1] = hash_calls[i][1]
                      /\ hash_calls[j][2] = hash_calls[i][2]
                      /\ \A k \in 1..(j - 1) :
                           \/ hash_calls[k][1] # hash_calls[i][1]
                           \/ hash_calls[k][2] # hash_calls[i][2]
        idx == SelectSeq([i \in 1..Len(hash_calls) |-> i],
                         LAMBDA i : hash_calls[First(i)][3] # hash_calls[i][3])
    IN [n \in 1..Len(idx) |->
          <<"DET-INV-1", hash_calls[idx[n]][1], hash_calls[idx[n]][2],
            hash_calls[idx[n]][3], hash_calls[First(idx[n])][3]>>]

\* DET-INV-2: the digests of ("req:", "input_a") and of ("cas:", "input_a")
\* among the recorded calls overlap.
DetInv2(hash_calls) ==
    LET req_digests == {c[3] : c \in {x \in Range(hash_calls) :
                                        x[1] = "req:" /\ x[2] = "input_a"}}
        cas_digests == {c[3] : c \in {x \in Range(hash_calls) :
                                        x[1] = "cas:" /\ x[2] = "input_a"}}
    IN IF req_digests \cap cas_digests # {}
       THEN << <<"DET-INV-2">> >>
       ELSE <<>>

DetInit ==
    /\ cas = Idle /\ proto = Idle /\ replay = Idle /\ policy = Idle /\ drv = Idle
    /\ det \in {[pc |-> "calls", bound |-> b, hash_fn |-> <<>>,
                 hash_calls |-> <<>>, violations |-> <<>>,
                 passed |-> FALSE, reported |-> -1] : b \in 0..MaxDetBound}

\* One iteration of "for _ in range(bound)": simulate_hash on a random op.
\* A key hashed before returns its stored digest; a new key gets the digest
\* the hash gives it.
DetHashCall ==
    /\ det.pc = "calls"
    /\ Len(det.hash_calls) < det.bound
    /\ \E op \in HashOps : \E d \in HashValues :
         /\ op \in DOMAIN det.hash_fn => d = det.hash_fn[op]
         /\ det' = [det EXCEPT
                      !.hash_fn = [k \in DOMAIN det.hash_fn \cup {op} |->
                                     IF k = op THEN d ELSE det.hash_fn[k]],
                      !.hash_calls = Append(det.hash_calls, <<op[1], op[2], d>>)]
    /\ UNCHANGED <<cas, proto, replay, policy, drv>>

\* After the calls: DET-INV-1, DET-INV-2, print and return.
DetCheck ==
    /\ det.pc = "calls"
    /\ Len(det.hash_calls) >= det.bound
    /\ LET v == DetInv1(det.hash_calls) \o DetInv2(det.hash_calls)
       IN det' = [det EXCEPT !.pc = "done",
                             !.violations = v,
                             !.passed = (v = <<>>),
                             !.reported = Len(det.hash_calls)]
    /\ UNCHANGED <<cas, proto, replay, policy, drv>>

DetNext == DetHashCall \/ DetCheck

SpecDeterminism == DetInit /\ [][DetNext]_vars

(***************************************************************************)
(* Policy compiler model: check_policy_compiler                            *)
(***************************************************************************)
\* The built-in definition, used when no policy file is given.
BuiltinPolicies == <<"p1", "p2", "p3">>
BuiltinMap ==
    [p \in {"p1", "p2", "p3"} |->
       IF p = "p1" THEN {"c1"} ELSE IF p = "p2" THEN {"c2"} ELSE {"c3"}]
BuiltinConflicts == << {"c1", "c2"} >>

\* The JSON objects a policy file may hold: any of the three keys may be
\* missing, "policies" lists the first n policy names, "map" gives some of the
\* policies a list of constraints, "conflicts" is a list of lists.
ExtPolicyNames == SubSeq(<<"p1", "p2", "p3", "p4">>, 1, MaxExtPolicies)
ExtConstraintLists == {<<>>, <<"c1">>, <<"c2">>, <<"c1", "c2">>}
ExtConflictLists == {<<"c1">>, <<"c2">>, <<"c1", "c2">>, <<"c2", "c1">>}
PolicyKeys == {"policies", "map", "conflicts"}

PolicyData ==
    {[k \in K |-> IF k = "policies" THEN ps ELSE IF k = "map" THEN m ELSE cs] :
       K  \in SUBSET PolicyKeys,
       ps \in {SubSeq(ExtPolicyNames, 1, n) : n \in 0..MaxExtPolicies},
       m  \in UNION {[S -> ExtConstraintLists] : S \in SUBSET Range(ExtPolicyNames)},
       cs \in UNION {[1..n -> ExtConflictLists] : n \in 0..MaxExtConflicts}}

\* data.get(key, default)
Get(data, key, default) == IF key \in DOMAIN data THEN data[key] ELSE default

\* A missing "policies" key is read as the built-in list.
LoadPoliciesBuiltinDefault(policy_file, data) ==
    IF policy_file /\ "policies" \in DOMAIN data
    THEN data["policies"]
    ELSE BuiltinPolicies

\* POLICIES
LoadPolicies(policy_file, data) ==
    IF policy_file THEN Get(data, "policies", <<>>) ELSE BuiltinPolicies

\* COMPILER_MAP: the lists of the file's map as sets.
LoadMap(policy_file, data) ==
    IF policy_file
    THEN LET raw_map == Get(data, "map", <<>>)
         IN [k \in DOMAIN raw_map |-> Range(raw_map[k])]
    ELSE BuiltinMap

\* CONFLICTS: the lists of the file's conflicts as sets.
LoadConflicts(policy_file, data) ==
    IF policy_file
    THEN LET raw_conflicts == Get(data, "conflicts", <<>>)
         IN [i \in 1..Len(raw_conflicts) |-> Range(raw_conflicts[i])]
    ELSE BuiltinConflicts

RECURSIVE Combinations(_, _, _)
\* itertools.combinations over the positions lo..n, r at a time, in its order.
Combinations(lo, n, r) ==
    IF r = 0 THEN << <<>> >>
    ELSE IF lo > n THEN <<>>
    ELSE LET with == Combinations(lo + 1, n, r - 1)
         IN [i \in 1..Len(with) |-> <<lo>> \o with[i]]
            \o Combinations(lo + 1, n, r)

RECURSIVE SubsetsFrom(_, _)
\* The combinations of "for r in range(len(POLICIES) + 1)" from r on.
SubsetsFrom(r, n) ==
    IF r > n THEN <<>> ELSE Combinations(1, n, r) \o SubsetsFrom(r + 1, n)

\* Every subset the two loops enumerate, as tuples of policies, in order.
PolicySubsets(POLICIES) ==
    LET combos == SubsetsFrom(0, Len(POLICIES))
    IN [i \in 1..Len(combos) |->
          [j \in 1..Len(combos[i]) |-> POLICIES[combos[i][j]]]]

\* Compilation generates no constraint.
GeneratedEmpty(COMPILER_MAP, active) == {}

\* The Compile action: the union of the active policies' constraints.
Generated(COMPILER_MAP, active) == UNION {COMPILER_MAP[p] : p \in active}

\* No generated pair is ever found in conflict.
HasConflictNever(generated_constraints, CONFLICTS) == FALSE

\* has_conflict: two different generated constraints form a listed conflict.
HasConflict(generated_constraints, CONFLICTS) ==
    \E c1, c2 \in generated_constraints :
      c1 # c2 /\ {c1, c2} \in Range(CONFLICTS)

\* POLICY-INV-1: an active policy's constraints are missing.
PolicyInv1(COMPILER_MAP, active, generated_constraints) ==
    LET bad == SetToSeq({p \in active :
                           ~(COMPILER_MAP[p] \subseteq generated_constraints)})
    IN [i \in 1..Len(bad) |-> <<"POLICY-INV-1", bad[i]>>]

\* POLICY-INV-2: a listed conflict passed compilation.
PolicyInv2(CONFLICTS, generated_constraints) ==
    LET bad == SetToSeq({pr \in generated_constraints \X generated_constraints :
                           {pr[1], pr[2]} \in Range(CONFLICTS)})
    IN [i \in 1..Len(bad) |-> <<"POLICY-INV-2", bad[i][1], bad[i][2]>>]

PolicyInit ==
    /\ cas = Idle /\ proto = Idle /\ replay = Idle /\ det = Idle /\ drv = Idle
    /\ policy \in {[pc |-> "load", policy_file |-> pf, data |-> d,
                    POLICIES |-> <<>>, COMPILER_MAP |-> <<>>, CONFLICTS |-> <<>>,
                    idx |-> 0, seen |-> <<>>, checked |-> <<>>,
                    violations |-> <<>>, passed |-> FALSE, error |-> "none"]
                   : pf \in {TRUE}, d \in PolicyData}
                  \cup
                  {[pc |-> "load", policy_file |-> FALSE, data |-> <<>>,
                    POLICIES |-> <<>>, COMPILER_MAP |-> <<>>, CONFLICTS |-> <<>>,
                    idx |-> 0, seen |-> <<>>, checked |-> <<>>,
                    violations |-> <<>>, passed |-> FALSE, error |-> "none"]}

\* Read the definition: from the policy file, or the built-in one.
PolicyLoad ==
    /\ policy.pc = "load"
    /\ policy' = [policy EXCEPT
                    !.pc = "subsets",
                    !.POLICIES = LoadPolicies(policy.policy_file, policy.data),
                    !.COMPILER_MAP = LoadMap(policy.policy_file, policy.data),
                    !.CONFLICTS = LoadConflicts(policy.policy_file, policy.data)]
    /\ UNCHANGED <<cas, proto, replay, det, drv>>

\* One iteration of the subset loops: compile the subset, look for a
\* conflict, and check the two invariants when there is none.  seen logs the
\* subsets the loop reached, checked those that passed the conflict guard.
\* COMPILER_MAP[p] of a policy without an entry raises KeyError.
PolicySubset ==
    /\ policy.pc = "subsets"
    /\ policy.idx < Len(PolicySubsets(policy.POLICIES))
    /\ LET active == Range(PolicySubsets(policy.POLICIES)[policy.idx + 1])
           generated_constraints == Generated(policy.COMPILER_MAP, active)
           has_conflict == HasConflict(generated_constraints, policy.CONFLICTS)
       IN policy' =
            IF \E p \in active : p \notin DOMAIN policy.COMPILER_MAP
            THEN [policy EXCEPT !.pc = "raised",
                                !.error = "KeyError",
                                !.seen = Append(policy.seen, active)]
            ELSE IF has_conflict
            THEN [policy EXCEPT !.idx = policy.idx + 1,
                                !.seen = Append(policy.seen, active)]
            ELSE [policy EXCEPT
                    !.idx = policy.idx + 1,
                    !.seen = Append(policy.seen, active),
                    !.checked = Append(policy.checked,
                                       [active |-> active,
                                        generated |-> generated_constraints]),
                    !.violations =
                        policy.violations
                          \o PolicyInv1(policy.COMPILER_MAP, active,
                                        generated_constraints)
                          \o PolicyInv2(policy.CONFLICTS, generated_constraints)]
    /\ UNCHANGED <<cas, proto, replay, det, drv>>

\* After the loops: print the violations or the pass line, and return.
PolicyFinish ==
    /\ policy.pc = "subsets"
    /\ policy.idx >= Len(PolicySubsets(policy.POLICIES))
    /\ policy' = [policy EXCEPT !.pc = "done",
                                !.passed = (policy.violations = <<>>)]
    /\ UNCHANGED <<cas, proto, replay, det, drv>>

PolicyNext == PolicyLoad \/ PolicySubset \/ PolicyFinish

SpecPolicy == PolicyInit /\ [][PolicyNext]_vars

(***************************************************************************)
(* Driver: main                                                            *)
(***************************************************************************)
\* The values argparse accepts for --spec.
SPEC_CHOICES == {"CAS", "Protocol", "Replay", "Determinism", "all"}

\* The --spec values of the command line: the accepted ones ("all" is also
\* the default) and "PolicyCompiler", which the usage text names.
SpecArgs == SPEC_CHOICES \cup {"PolicyCompiler"}

\* The models in the order main runs them.
MODELS == <<"CAS", "Protocol", "Replay", "Determinism", "PolicyCompiler">>

\* What a call of a check_* function may do: return True or False, and for
\* check_policy_compiler also raise (a policy file that cannot be compiled).
Outcomes(model) ==
    IF model = "PolicyCompiler" THEN {"pass", "fail", "raise"}
    ELSE {"pass", "fail"}

\* One passing model is enough.
AnyPass(results) == \E i \in 1..Len(results) : results[i][2]

\* all(ok for _, ok in results)
AllPass(results) == \A i \in 1..Len(results) : results[i][2]

DrvInit ==
    /\ cas = Idle /\ proto = Idle /\ replay = Idle /\ det = Idle /\ policy = Idle
    /\ drv \in {[pc |-> "parse", argv |-> a, spec |-> "none", next |-> 1,
                 results |-> <<>>, all_pass |-> FALSE, raised |-> FALSE,
                 usage_error |-> FALSE, exit |-> -1] : a \in SpecArgs}

\* parser.parse_args(): a --spec outside the choices is a usage error, exit 2.
DrvParse ==
    /\ drv.pc = "parse"
    /\ drv' = IF drv.argv \in SPEC_CHOICES
              THEN [drv EXCEPT !.pc = "run", !.spec = drv.argv]
              ELSE [drv EXCEPT !.pc = "exited", !.usage_error = TRUE, !.exit = 2]
    /\ UNCHANGED <<cas, proto, replay, det, policy>>

\* The next "if args.spec in (<model>, 'all')": run the model when it is
\* requested and append its result.  An exception leaves main uncaught: the
\* process ends with a traceback and exit status 1.
DrvCheck ==
    /\ drv.pc = "run"
    /\ drv.next <= Len(MODELS)
    /\ \E outcome \in Outcomes(MODELS[drv.next]) :
         drv' = IF drv.spec \notin {MODELS[drv.next], "all"}
                THEN [drv EXCEPT !.next = drv.next + 1]
                ELSE IF outcome = "raise"
                THEN [drv EXCEPT !.pc = "exited", !.raised = TRUE, !.exit = 1]
                ELSE [drv EXCEPT
                        !.next = drv.next + 1,
                        !.results = Append(drv.results,
                                           <<MODELS[drv.next], outcome = "pass">>)]
    /\ UNCHANGED <<cas, proto, replay, det, policy>>

\* The summary: all_pass, one line per model, and sys.exit(0) or sys.exit(1).
DrvSummary ==
    /\ drv.pc = "run"
    /\ drv.next > Len(MODELS)
    /\ drv' = [drv EXCEPT !.pc = "exited",
                          !.all_pass = AllPass(drv.results),
                          !.exit = IF AllPass(drv.results) THEN 0 ELSE 1]
    /\ UNCHANGED <<cas, proto, replay, det, policy>>

DrvNext == DrvParse \/ DrvCheck \/ DrvSummary

SpecMain == DrvInit /\ [][DrvNext]_vars

(***************************************************************************)
(* Claims about the CAS model (checked under SpecCAS)                      *)
(***************************************************************************)
\* A step of the loop that expanded the head of the queue: every such step
\* appends at least one successor, a skip or a bounded state only pops.
CasExpanded ==
    /\ cas.pc = "loop" /\ cas'.pc = "loop" /\ cas' # cas
    /\ Len(cas'.queue) >= Len(cas.queue)

\* The entries the step appended, as positions of the new queue.
CasAppended == Len(cas.queue)..Len(cas'.queue)

\* C1 (CAS immutability): whenever a state is expanded, every successor it
\* enqueues keeps, for every digest present in the expanded state's store, the
\* same content at that digest; hence store[d] never changes once committed.
C1_Immutability ==
    [][CasExpanded =>
         \A i \in CasAppended :
           \A d \in DOMAIN Head(cas.queue).store :
             /\ d \in DOMAIN cas'.queue[i].store
             /\ cas'.queue[i].store[d] = Head(cas.queue).store[d]]_vars

\* A colliding write was applied two levels down: an entry with a stored
\* digest and a recorded collision sits in the queue.
C1_Witness ==
    /\ cas.pc = "loop"
    /\ \E i \in 1..Len(cas.queue) :
         /\ cas.queue[i].depth >= 2
         /\ DOMAIN cas.queue[i].store # {}
         /\ cas.queue[i].errors # {}

\* The entry reached by write(d1,c_a) from the initial state.
CasAfterFirst ==
    [store |-> [d \in {"d1"} |-> "c_a"], writes_ok |-> {<<"d1", "c_a">>},
     errors |-> {}, depth |-> 1]

\* The entry reached by write(d1,c_a) then write(d1,c_b).
CasAfterCollision ==
    [store |-> [d \in {"d1"} |-> "c_a"], writes_ok |-> {<<"d1", "c_a">>},
     errors |-> {<<"d1", "c_b">>}, depth |-> 2]

\* C2 (CAS collision handling): when a state with d stored as c is expanded,
\* write(d,c') is applied for every c' # c, and its successor has the same
\* store and committed writes and the errors plus (d,c'); write(d1,c_a) from
\* the initial state and then write(d1,c_b) give store {d1: c_a} with the
\* error (d1,c_b).
C2_CollisionHandling ==
    [][CasExpanded =>
         LET st   == Head(cas.queue)
             base == Len(cas.queue) - 1
             en   == SelectSeq(WritePairs, LAMBDA p : p \notin st.writes_ok)
         IN /\ Len(cas'.queue) = base + Len(en)
            /\ \A d \in DOMAIN st.store : \A j \in 1..Len(CONTENT) :
                 CONTENT[j] # st.store[d] =>
                   \E i \in 1..Len(en) : en[i] = <<d, CONTENT[j]>>
            /\ \A i \in 1..Len(en) :
                 LET d == en[i][1]
                     c == en[i][2]
                     new == cas'.queue[base + i]
                 IN (d \in DOMAIN st.store /\ st.store[d] # c) =>
                      /\ new.store = st.store
                      /\ new.writes_ok = st.writes_ok
                      /\ new.errors = st.errors \cup {<<d, c>>}
            /\ (st = CasInitialEntry => cas'.queue[base + 1] = CasAfterFirst)
            /\ (st = CasAfterFirst => cas'.queue[base + 1] = CasAfterCollision)]_vars

\* write(d1,c_a) then write(d1,c_b) have been applied.
C2_Witness ==
    /\ cas.pc = "loop"
    /\ \E i \in 1..Len(cas.queue) : cas.queue[i] = CasAfterCollision

\* C3 (CAS-INV-4, collision accuracy): in every state the search reaches, at
\* any bound, every recorded collision (d,c) has d in the store with a
\* content other than c, and no violation is reported.
C3_CollisionAccuracy ==
    /\ \A i \in 1..Len(cas.queue) :
         \A e \in cas.queue[i].errors :
           /\ e[1] \in DOMAIN cas.queue[i].store
           /\ cas.queue[i].store[e[1]] # e[2]
    /\ \A k \in cas.visited :
         \A e \in k[3] :
           \E j \in 1..Len(k[1]) : k[1][j][1] = e[1] /\ k[1][j][2] # e[2]
    /\ cas.violations = <<>>

\* A visited state with a recorded collision.
C3_Witness ==
    /\ cas.pc = "done"
    /\ \E k \in cas.visited : k[3] # {}

\* Store, committed writes and collision errors of a queue entry.
CasState(st) == <<st.store, st.writes_ok, st.errors>>

\* C4 (CAS idempotence): for every reached state and every (d,c) whose first
\* write commits c at d, the write transition applied a second time gives the
\* state the first write gave: same store, committed writes and collision
\* errors, with no collision added.
C4_Idempotence ==
    \A i \in 1..Len(cas.queue) :
      \A p \in Range(WritePairs) :
        LET st    == cas.queue[i]
            once  == ApplyWrite(st, p[1], p[2])
            twice == ApplyWrite(once, p[1], p[2])
        IN p[1] \notin DOMAIN st.store =>
             /\ once.store[p[1]] = p[2]
             /\ CasState(twice) = CasState(once)
             /\ twice.errors = st.errors

\* A first write has committed both digests, and repeating either leaves the
\* entry's store, committed writes and errors as they are.
C4_Witness ==
    /\ cas.pc = "loop"
    /\ \E i \in 1..Len(cas.queue) :
         LET st == cas.queue[i]
         IN /\ DOMAIN st.store = Range(DIGESTS)
            /\ \A w \in st.writes_ok :
                 CasState(ApplyWrite(st, w[1], w[2])) = CasState(st)

(***************************************************************************)
(* Claims about the Protocol model (checked under SpecProtocol)            *)
(***************************************************************************)
\* C5 (Protocol well-formedness): every (stream, terminated) state the DFS
\* visits, at any bound, has 'start' as first tag when non-empty and a last
\* tag in {result, error} when terminated; nothing is flagged, the empty
\* initial stream included, and the model passes.
C5_WellFormed ==
    /\ \A i \in 1..Len(proto.stack) :
         LET f == proto.stack[i]
         IN /\ (f.stream # <<>> => f.stream[1] = "start")
            /\ (f.terminated =>
                  f.stream # <<>> /\ f.stream[Len(f.stream)] \in {"result", "error"})
    /\ proto.violations = <<>>
    /\ (proto.pc = "done" => proto.passed)

\* The DFS is visiting a terminated stream it reached through 'start'.
C5_Witness ==
    /\ proto.pc = "run"
    /\ proto.explored >= 3
    /\ \E i \in 1..Len(proto.stack) :
         proto.stack[i].terminated /\ Len(proto.stack[i].stream) >= 3

(***************************************************************************)
(* Claims about the Replay model (checked under SpecReplay)                *)
(***************************************************************************)
\* C6 (Replay determinism): after every trial, whatever function it sampled,
\* each request has exactly one digest across the three nodes and every entry
\* of the replay log equals the recorded result; no violation is collected
\* and check_replay passes, at every bound.
C6_ReplayDeterminism ==
    /\ replay.trial >= 1 =>
         /\ \A r \in {"req_a", "req_b"} :
              Cardinality({replay.results[<<n, r>>] :
                             n \in {"node_1", "node_2", "node_3"}}) = 1
         /\ Len(replay.replay_log) = 6
         /\ \A i \in 1..Len(replay.replay_log) :
              LET e == replay.replay_log[i]
              IN replay.results[<<e[1], e[2]>>] = e[3]
    /\ replay.violations = <<>>
    /\ (replay.pc = "done" => replay.passed)

\* check_replay has finished its trials, the last with a function that maps
\* the two requests to different digests.
C6_Witness ==
    /\ replay.pc = "done"
    /\ replay.trial >= 2
    /\ replay.exec_fn["req_a"] # replay.exec_fn["req_b"]

(***************************************************************************)
(* Claims about the Determinism model (checked under SpecDeterminism)      *)
(***************************************************************************)
\* Two recorded calls with distinct prefixes, the same input and equal digests.
DetPrefixCollision ==
    \E i, j \in 1..Len(det.hash_calls) :
      /\ det.hash_calls[i][1] # det.hash_calls[j][1]
      /\ det.hash_calls[i][2] = det.hash_calls[j][2]
      /\ det.hash_calls[i][3] = det.hash_calls[j][3]

\* C7 (Determinism domain separation, as claimed): whenever the recorded
\* calls hold two calls with distinct prefixes, the same input and equal
\* digests, check_determinism reports DET-INV-2 and fails.
C7_DomainSeparationAsserted ==
    (det.pc = "done" /\ DetPrefixCollision) =>
       /\ ~det.passed
       /\ \E i \in 1..Len(det.violations) : det.violations[i][1] = "DET-INV-2"

(***************************************************************************)
(* Claims about the policy compiler model (checked under SpecPolicy)       *)
(***************************************************************************)
\* C8 (policy completeness/consistency, built-in definition): the 8 subsets
\* of {p1,p2,p3} are each enumerated once; exactly the subsets that generate
\* both c1 and c2 are kept from the checks; every other subset, the empty one
\* included, has each active policy's constraints in the generated set and
\* not both c1 and c2 in it; no violation is collected and the model passes.
C8_BuiltinPolicyPass ==
    ~policy.policy_file =>
      /\ policy.violations = <<>>
      /\ \A i \in 1..Len(policy.checked) :
           LET e == policy.checked[i]
           IN /\ \A p \in e.active :
                   (IF p = "p1" THEN {"c1"} ELSE IF p = "p2" THEN {"c2"} ELSE {"c3"})
                     \subseteq e.generated
              /\ ~({"c1", "c2"} \subseteq e.generated)
      /\ policy.pc = "done" =>
           /\ policy.passed
           /\ Len(policy.seen) = 8
           /\ Range(policy.seen) = SUBSET {"p1", "p2", "p3"}
           /\ \A S \in SUBSET {"p1", "p2", "p3"} :
                {"p1", "p2"} \subseteq S
                  <=> ~(\E i \in 1..Len(policy.checked) : policy.checked[i].active = S)
           /\ \E i \in 1..Len(policy.checked) : policy.checked[i].active = {}

\* The built-in run is over: {p1,p2} was left out, {p1,p3} was checked.
C8_Witness ==
    /\ ~policy.policy_file
    /\ policy.pc = "done"
    /\ policy.passed
    /\ {"p1", "p2"} \in Range(policy.seen)
    /\ \E i \in 1..Len(policy.checked) :
         /\ policy.checked[i].active = {"p1", "p3"}
         /\ policy.checked[i].generated = {"c1", "c3"}

\* A policy file that lacks a key, or lists a policy its map has no entry for.
PolicyMalformed ==
    /\ policy.policy_file
    /\ \/ PolicyKeys \ DOMAIN policy.data # {}
       \/ \E i \in 1..Len(policy.data["policies"]) :
            policy.data["policies"][i] \notin DOMAIN policy.data["map"]

\* C10 (as claimed): a malformed policy definition is rejected before any
\* subset is enumerated and never yields pass.
C10_MalformedRejected ==
    PolicyMalformed =>
      /\ policy.seen = <<>>
      /\ ~(policy.pc = "done" /\ policy.passed)

\* A listed policy the loaded map has no entry for.
PolicyUnmapped ==
    \E i \in 1..Len(policy.POLICIES) :
      policy.POLICIES[i] \notin DOMAIN policy.COMPILER_MAP

\* C10 (amended): a policy file that lacks 'policies', 'map' or 'conflicts'
\* (its other parts well-formed) is not rejected: the missing part is read as
\* empty, never as the built-in default, and the subsets are enumerated;
\* without 'policies' only the empty subset is enumerated and the model
\* passes.  Only a listed policy with no map entry stops the run, by a lookup
\* error raised when the first subset holding it is compiled, after the
\* empty subset was enumerated; such a file never yields pass.
C10_MissingPartsReadAsEmpty ==
    (policy.policy_file /\ policy.pc # "load") =>
      /\ "policies" \notin DOMAIN policy.data => policy.POLICIES = <<>>
      /\ "map" \notin DOMAIN policy.data => DOMAIN policy.COMPILER_MAP = {}
      /\ "conflicts" \notin DOMAIN policy.data => policy.CONFLICTS = <<>>
      /\ ("policies" \notin DOMAIN policy.data /\ policy.pc = "done") =>
           policy.passed /\ policy.seen = << {} >>
      /\ policy.pc = "raised" =>
           /\ PolicyUnmapped
           /\ Len(policy.seen) >= 2
           /\ policy.seen[1] = {}
           /\ \A i \in 1..(Len(policy.seen) - 1) :
                policy.seen[i] \subseteq DOMAIN policy.COMPILER_MAP
           /\ ~(policy.seen[Len(policy.seen)] \subseteq DOMAIN policy.COMPILER_MAP)
      /\ PolicyUnmapped => policy.pc # "done"
      /\ policy.pc # "raised" => policy.error = "none"
      /\ (~PolicyUnmapped /\ policy.pc = "done") =>
           Len(policy.seen) = Len(PolicySubsets(policy.POLICIES))

\* A policy file without any of the three keys was read and passed.
C10_Witness ==
    /\ policy.policy_file
    /\ DOMAIN policy.data = {}
    /\ policy.pc = "done"
    /\ policy.passed
    /\ policy.seen = << {} >>

(***************************************************************************)
(* Claims about the driver (checked under SpecMain)                        *)
(***************************************************************************)
\* The models a --spec value requests, in the order main runs them.
Requested == SelectSeq(MODELS, LAMBDA m : drv.spec \in {m, "all"})

C11_ReportedTrialsAreExecuted ==
    replay.pc = "done" => replay.reported = replay.trial


\* C12 (DFS short-circuit, as claimed): for any invariant evaluator, once a
\* visited state has yielded a violation the search stops: no further state is
\* explored and no second violation is collected.
C12_DfsShortCircuit ==
    [][proto.violations # <<>> =>
         /\ proto'.explored = proto.explored
         /\ proto'.violations = proto.violations]_vars

(* Breadth-first search of check_cas *)
\* The flagged states the search can reach within its bound.
CasFlaggedReachable == cas.flagged \cap CasReachableKeys(cas.bound)

\* C13 (BFS first violation at the shallowest depth): for any invariant
\* evaluator, the queue is in non-decreasing depth order; the violations
\* reported are those of one rejected state whose depth is least among the
\* rejected states reachable within the bound, one is reported whenever such a
\* state exists, and after it nothing is dequeued, evaluated or expanded.
C13_ShallowestViolationFirst ==
    /\ [](cas.pc # "idle" =>
            /\ \A i \in 1..Len(cas.queue) : \A j \in i..Len(cas.queue) :
                  /\ cas.queue[i].depth <= cas.queue[j].depth
                  /\ cas.queue[j].depth <= cas.queue[i].depth + 1
            /\ cas.violations # <<>> =>
                  /\ Len(cas.violations) = 1
                  /\ cas.violations[1][2] \in CasFlaggedReachable
                  /\ \A f \in CasFlaggedReachable :
                        CasMinDepth(cas.violations[1][2]) <= CasMinDepth(f)
            /\ cas.pc = "done" =>
                  (cas.violations = <<>> <=> CasFlaggedReachable = {}))
    /\ [][cas.violations # <<>> =>
            /\ cas'.queue = cas.queue
            /\ cas'.visited = cas.visited
            /\ cas'.explored = cas.explored
            /\ cas'.violations = cas.violations]_vars

\* A run where a deeper rejected state exists besides the one reported.
C13_Witness ==
    /\ cas.pc = "done"
    /\ cas.violations # <<>>
    /\ \E f \in CasFlaggedReachable :
          CasMinDepth(f) > CasMinDepth(cas.violations[1][2])
    /\ CasMinDepth(cas.violations[1][2]) >= 2

\* C14 (BFS deduplication): the visited set only grows; a state's invariants
\* are evaluated (the explored counter incremented) exactly when its key is
\* new, whatever order of writes produced it, so no state is evaluated twice;
\* and the explored counter always equals the size of the visited set.
C14_Deduplication ==
    /\ [](cas.pc # "idle" => cas.explored = Cardinality(cas.visited))
    /\ [][cas.pc = "loop" /\ cas'.pc = "loop" =>
            LET st == Head(cas.queue)
                sk == state_key(st.store, st.writes_ok, st.errors)
            IN /\ cas.visited \subseteq cas'.visited
               /\ IF sk \in cas.visited
                  THEN /\ cas'.visited = cas.visited
                       /\ cas'.explored = cas.explored
                       /\ cas'.queue = Tail(cas.queue)
                  ELSE /\ cas'.visited = cas.visited \cup {sk}
                       /\ cas'.explored = cas.explored + 1]_vars

\* A state already evaluated is dequeued again, reached by another order of
\* writes: both digests written, and the queue still holds the same state.
C14_Witness ==
    /\ cas.pc = "loop"
    /\ cas.queue # <<>>
    /\ LET st == Head(cas.queue)
       IN /\ state_key(st.store, st.writes_ok, st.errors) \in cas.visited
          /\ Cardinality(st.writes_ok) = 2
          /\ st.errors = {}

\* C15 (BFS termination): for every bound the search returns, with an empty
\* queue or a violation; a dequeued state whose key is already visited (a
\* state reached again by a rejected write, the repeated rejected write
\* included) is dropped without being expanded.
C15_Termination ==
    /\ <>(cas.pc = "done")
    /\ [](cas.pc = "done" => (cas.queue = <<>> \/ cas.violations # <<>>))
    /\ [][cas.pc = "loop" /\ cas'.pc = "loop" =>
            LET st == Head(cas.queue)
            IN state_key(st.store, st.writes_ok, st.errors) \in cas.visited =>
                  cas'.queue = Tail(cas.queue)]_vars

\* The search has returned with the queue drained after expanding the deepest
\* states, whose successors are all visited states.
C15_Witness ==
    /\ cas.pc = "done"
    /\ cas.queue = <<>>
    /\ cas.bound >= Len(CasLevels)
    /\ cas.explored = Cardinality(CasReachableKeys(cas.bound))

(* The invariant evaluator check_state *)
\* C16 (Protocol invariant independence, as claimed): some (stream,
\* terminated) input over the frame tags makes check_state return PROTO-INV-4
\* and not PROTO-INV-1.
C16_Inv4Independent ==
    proto.pc \in {"call", "returned"} =>
       \E st \in ProtoStreams : \E t \in BOOLEAN :
          /\ check_state(st, t) # None
          /\ check_state(st, t)[1] = "PROTO-INV-4"

\* C16 (amended): check_state never returns PROTO-INV-4; a stream whose frame
\* at position zero is 'event' is reported as PROTO-INV-1, like every stream
\* that does not start with 'start', whatever terminated is.
C16_Inv4Subsumed ==
    proto.pc = "returned" =>
       /\ proto.result # None => proto.result[1] # "PROTO-INV-4"
       /\ (proto.stream # <<>> /\ proto.stream[1] # "start") =>
             proto.result = <<"PROTO-INV-1", proto.stream[1]>>

\* check_state has returned for a stream with 'event' at position zero.
C16_Witness ==
    /\ proto.pc = "returned"
    /\ proto.stream # <<>>
    /\ proto.stream[1] = "event"
    /\ proto.result = <<"PROTO-INV-1", "event">>

(* Actions of the Protocol search *)
\* C17 (Protocol action legality): each recursive call of explore is made from
\* a non-terminated state; from the empty stream it appends 'start', from a
\* started stream it appends 'event', 'end' only when the stream holds no
\* 'end', or 'result' or 'error' with terminated set.  Hence in every visited
\* state 'end' occurs at most once, a terminal tag occurs only last, and
\* terminated holds exactly when the last tag is terminal.
C17_ActionLegality ==
    /\ [](proto.pc # "idle" =>
            \A i \in 1..Len(proto.stack) :
               LET f == proto.stack[i]
               IN /\ Cardinality({k \in 1..Len(f.stream) : f.stream[k] = "end"}) <= 1
                  /\ \A k \in 1..Len(f.stream) :
                        f.stream[k] \in TERMINAL => k = Len(f.stream)
                  /\ f.terminated <=>
                        (f.stream # <<>> /\ Last(f.stream) \in TERMINAL))
    /\ [][Len(proto'.stack) = Len(proto.stack) + 1 =>
            LET p == ProtoTop
                c == proto'.stack[Len(proto'.stack)]
            IN /\ ~p.terminated
               /\ c.depth = p.depth + 1
               /\ IF p.stream = <<>>
                  THEN c.stream = <<"start">> /\ ~c.terminated
                  ELSE /\ p.stream[1] = "start"
                       /\ \E tag \in {"event", "end", "result", "error"} :
                             /\ c.stream = Append(p.stream, tag)
                             /\ tag = "end" => "end" \notin Range(p.stream)
                             /\ c.terminated <=> tag \in TERMINAL]_vars

\* The search is in a state reached by 'end' and then a terminal tag, whose
\* parent, already holding 'end', had no second 'end' to append.
C17_Witness ==
    /\ proto.pc = "run"
    /\ Len(proto.stack) >= 2
    /\ ProtoTop.terminated
    /\ "end" \in Range(ProtoTop.stream)
    /\ Len(ProtoActions(proto.stack[Len(proto.stack) - 1].stream, FALSE)) = 3

(* Structure of the CAS states *)
\* C18 (CAS structural invariant): in every state the search generates, the
\* committed writes are exactly the (digest, content) pairs of the store and
\* the collision errors are disjoint from them, so CAS-INV-1 and CAS-INV-2
\* hold; and no write(d, c) the successor loop applies has store[d] = c: the
\* idempotent branch is never taken.
C18_StructuralInvariant ==
    cas.pc # "idle" =>
       \A i \in 1..Len(cas.queue) :
          LET st == cas.queue[i]
          IN /\ st.writes_ok = {<<d, st.store[d]>> : d \in DOMAIN st.store}
             /\ st.errors \cap st.writes_ok = {}
             /\ CasInv1(st) = <<>>
             /\ CasInv2(st) = <<>>
             /\ \A k \in 1..Len(EnabledWrites(st)) :
                   LET w == EnabledWrites(st)[k]
                   IN ~(w[1] \in DOMAIN st.store /\ st.store[w[1]] = w[2])

\* A queued state with both digests stored, a recorded collision, and a write
\* still to apply.
C18_Witness ==
    /\ cas.pc = "loop"
    /\ \E i \in 1..Len(cas.queue) :
          LET st == cas.queue[i]
          IN /\ DOMAIN st.store = Range(DIGESTS)
             /\ st.errors # {}
             /\ EnabledWrites(st) # <<>>
             /\ st.depth < cas.bound

(* Fixed point of the CAS search *)
\* The states of the built-in universe in closed form: any store over the
\* digests, its pairs as committed writes, and any set of rejected writes of
\* another content to a stored digest.
CasClosedForm ==
    UNION {{state_key(store,
                      {<<d, store[d]>> : d \in DOMAIN store},
                      errors) :
              errors \in SUBSET {<<d, c>> \in Range(DIGESTS) \X Range(CONTENT) :
                                   d \in DOMAIN store /\ store[d] # c}} :
           store \in UNION {[D -> Range(CONTENT)] : D \in SUBSET Range(DIGESTS)}}

\* C19 (CAS fixed point): the states reachable from the empty store are 25,
\* all first reached at depth <= 4; check_cas with bound >= 4 explores exactly
\* these 25 and passes, and with bound b < 4 exactly the states of depth <= b.
C19_FixedPoint ==
    cas.pc = "done" =>
       /\ Len(CasLevels) = 5
       /\ CasReachableKeys(4) = CasClosedForm
       /\ Cardinality(CasClosedForm) = 25
       /\ cas.visited = CasReachableKeys(cas.bound)
       /\ cas.explored = Cardinality(CasReachableKeys(cas.bound))
       /\ cas.reported = <<1, 5, 13, 21, 25>>[Min(cas.bound, 4) + 1]
       /\ cas.passed
       /\ cas.bound >= 4 => cas.visited = CasClosedForm

\* check_cas has returned for a bound above 4 with the 25 states explored.
C19_Witness ==
    /\ cas.pc = "done"
    /\ cas.bound > 4
    /\ cas.reported = 25
    /\ cas.passed

(* Vacuity of the policy checks *)
\* Every listed policy has a map entry and every conflict has two constraints.
PolicyWellShaped ==
    /\ \A p \in Range(policy.POLICIES) : p \in DOMAIN policy.COMPILER_MAP
    /\ \A i \in 1..Len(policy.CONFLICTS) : Cardinality(policy.CONFLICTS[i]) = 2

\* C20 (policy-check vacuity): when every listed policy has a map entry and
\* every conflict is a set of two distinct constraints, no subset yields a
\* violation and the check passes.  POLICY-INV-1 is never reported; a reported
\* violation is a POLICY-INV-2 of a constraint c with itself, where {c} is a
\* listed conflict and c was generated for a subset that passed the guard.
C20_PolicyCheckVacuity ==
    policy.pc \in {"subsets", "done", "raised"} =>
       /\ PolicyWellShaped =>
             /\ policy.violations = <<>>
             /\ policy.pc # "raised"
             /\ policy.pc = "done" => policy.passed
       /\ \A i \in 1..Len(policy.violations) :
             LET v == policy.violations[i]
             IN /\ v[1] = "POLICY-INV-2"
                /\ v[2] = v[3]
                /\ {v[2]} \in Range(policy.CONFLICTS)
                /\ \E k \in 1..Len(policy.checked) :
                      v[2] \in policy.checked[k].generated
       /\ \A k \in 1..Len(policy.checked) :
             LET ch == policy.checked[k]
             IN /\ ch.generated = UNION {policy.COMPILER_MAP[p] : p \in ch.active}
                /\ ~HasConflict(ch.generated, policy.CONFLICTS)

\* A policy file with a two-constraint conflict has been checked: a subset
\* generating both constraints was skipped by the guard, the others passed.
C20_Witness ==
    /\ policy.pc = "done"
    /\ policy.policy_file
    /\ PolicyWellShaped
    /\ policy.CONFLICTS # <<>>
    /\ Len(policy.checked) < Len(policy.seen)
    /\ \E k \in 1..Len(policy.checked) : policy.checked[k].generated # {}
    /\ policy.passed
=============================================================================
